---- MODULE Spec2Model ----
(***************************************************************************)
(* Model of src/elastic_snapshot.py: a linear script that loads a YAML     *)
(* configuration, renders two payload files and issues three calls to the  *)
(* Elasticsearch snapshot API.  One action per call made by entrypoint();  *)
(* the environment (command line, files, templates, HTTP responses) is     *)
(* drawn nondeterministically.  The script may be run several times in the *)
(* same working directory, so payload files outlive a run.                 *)
(***************************************************************************)
EXTENDS Integers, Sequences, FiniteSets, TLC

\* Number of consecutive invocations of the script in one working directory.
MaxRuns == 2

VARIABLES pc, run, location, environ, meta_values, files,
          stdout, http, stages, ret, exit_status, uncaught

vars == <<pc, run, location, environ, meta_values, files,
          stdout, http, stages, ret, exit_status, uncaught>>

----------------------------------------------------------------------------
\* Values of the environment.

\* args.metadata: omitted flag (None), a path with no file, a path to a file.
Locations == {"None", "missing", "present"}

\* Content of the YAML configuration file: a mapping with every key the
\* script reads, a mapping without them, an empty document, malformed YAML.
ConfigTexts == {"full", "nokeys", "empty", "invalid"}

\* Content of a payload file: a JSON document, a document that is YAML but
\* not JSON, text that is neither, zero bytes.
PayloadTexts == {"json", "yamlonly", "invalid", "empty"}

bucket_payload == "configuration/bucket.json"
snapshot_payload == "configuration/snapshot.json"
PayloadFiles == {bucket_payload, snapshot_payload}

\* A payload file on disk.  fresh: written by the current run; how: whether
\* the last write was a completed render or only the truncation by open().
Absent == [exists |-> FALSE, fresh |-> FALSE, how |-> "none", text |-> "none"]
Rendered(t) == [exists |-> TRUE, fresh |-> TRUE, how |-> "rendered", text |-> t]
Truncated == [exists |-> TRUE, fresh |-> TRUE, how |-> "truncated", text |-> "empty"]
Stale(f) == [f EXCEPT !.fresh = FALSE]

\* What the jinja2 environment and the filesystem do in generate_payload.
RenderOutcomes ==
    {[fault |-> "load_error",   text |-> "none"],
     [fault |-> "open_error",   text |-> "none"],
     [fault |-> "render_error", text |-> "none"]}
    \cup [fault : {"none"}, text : PayloadTexts]

\* What the HTTP client does for one request: raise a RequestException, or
\* deliver a response with a status code and a body.
Responses ==
    {[raised |-> TRUE, status |-> 0, body |-> "none"]}
    \cup [raised : {FALSE}, status : {200, 500}, body : {"json", "malformed"}]

HTTP_NOT_FOUND == 404
HTTP_NOT_ACCEPTABLE == 406

----------------------------------------------------------------------------
\* Entries of the two logs.

Out(k, v, n) == [k |-> k, v |-> v, n |-> n]
substitute_placeholder(className) == Out("exception", className, 0)

Req(stage, method, target, r, body) ==
    [stage |-> stage, method |-> method, target |-> target,
     raised |-> r.raised, status |-> r.status, body |-> body]

repository_create == "/_snapshot/{repository}"
snapshot_verify == "/_snapshot/{repository}/_verify?pretty"
snapshot_create == "/_snapshot/{repository}/{snapshot}?pretty"
BaseUrl == "es_url"

----------------------------------------------------------------------------
\* Library functions, by what they do.

\* yaml.load(stream, Loader=SafeLoader): malformed text raises a YAMLError,
\* an empty document loads as None, anything else loads as a value.
yaml_load(text) ==
    IF text = "invalid" THEN [raised |-> "YAMLError", val |-> "none"]
    ELSE IF text = "empty" THEN [raised |-> "none", val |-> "None"]
    ELSE [raised |-> "none", val |-> text]

\* json.loads(body)
loads(body) ==
    IF body = "json" THEN [raised |-> "none", val |-> "json"]
    ELSE [raised |-> "JSONDecodeError", val |-> "none"]

isfile(f) == f.exists

\* Whether a payload text is a valid JSON document.
IsJson(text) == text = "json"

----------------------------------------------------------------------------
\* The functions of the script.  Each returns its result, the exception
\* that escapes it ("none" when it returns), and what it printed / sent.

read_configuration(loc, text) ==
    IF loc = "None"
    THEN [raised |-> "TypeError", val |-> "none", out |-> <<>>]
    ELSE IF loc = "missing"
    THEN [raised |-> "none", val |-> "None",
          out |-> <<substitute_placeholder("FileNotFoundError")>>]
    ELSE LET y == yaml_load(text) IN
         [raised |-> y.raised, val |-> y.val, out |-> <<>>]

\* Variant: any response counts as reachable, whatever its status.
check_if_reachable_any_status(r) ==
    IF r.raised THEN [raised |-> "ConnectionError", val |-> FALSE]
    ELSE [raised |-> "none", val |-> TRUE]

check_if_reachable(r) ==
    IF r.raised THEN [raised |-> "ConnectionError", val |-> FALSE]
    ELSE [raised |-> "none", val |-> r.status < 400]


\* generate_payload(template_location, metadata, outfile): o is what the
\* template engine and the filesystem do, f the output file before the call.
\* written = -1 stands for None.
generate_payload(metadata, o, f) ==
    IF metadata = "None"
    THEN [written |-> -1, file |-> f,
          out |-> <<Out("message", "metadata is empty.", 0)>>]
    ELSE IF o.fault = "load_error"
    THEN [written |-> -1, file |-> f,
          out |-> <<substitute_placeholder("TemplateNotFound")>>]
    ELSE IF o.fault = "open_error"
    THEN [written |-> -1, file |-> f,
          out |-> <<substitute_placeholder("PermissionError")>>]
    ELSE IF o.fault = "render_error"
    THEN [written |-> -1, file |-> Truncated,
          out |-> <<Out("metadata", "meta_values", 0),
                    substitute_placeholder("TemplateError")>>]
    ELSE [written |-> IF o.text = "empty" THEN 0 ELSE 1,
          file |-> Rendered(o.text),
          out |-> <<Out("metadata", "meta_values", 0)>>]

fill_template(metadata, o, f) ==
    IF metadata # "None"
    THEN LET g == generate_payload(metadata, o, f) IN
         [exit |-> FALSE, written |-> g.written, file |-> g.file,
          out |-> IF g.written = 0 \/ g.written = -1
                  THEN g.out \o <<Out("message",
                          "please check the metadata, it is must be none.", 0)>>
                  ELSE g.out]
    ELSE [exit |-> TRUE, written |-> -1, file |-> f,
          out |-> <<Out("message",
                        "meta data didn't load; please check yamls", 0)>>]

\* configure_repository(payload_location, es_url, repository_name):
\* g is the response to the reachability GET, f the payload file, p the
\* response to the PUT.  status = -1 stands for an escaping exception.
configure_repository(g, f, p) ==
    LET stage == "configure_repository"
        reach == check_if_reachable(g)
        probe == <<Req(stage, "GET", BaseUrl, g, Absent)>>
    IN
    IF reach.raised # "none"
    THEN [raised |-> reach.raised, status |-> -1, out |-> <<>>, reqs |-> probe]
    ELSE IF reach.val /\ isfile(f)
    THEN LET y == yaml_load(f.text) IN
         IF y.raised # "none"
         THEN [raised |-> "none", status |-> HTTP_NOT_FOUND,
               out |-> <<substitute_placeholder(y.raised)>>, reqs |-> probe]
         ELSE IF p.raised
         THEN [raised |-> "none", status |-> HTTP_NOT_FOUND,
               out |-> <<substitute_placeholder("ConnectionError")>>,
               reqs |-> probe \o <<Req(stage, "PUT", repository_create, p, f)>>]
         ELSE [raised |-> "none", status |-> p.status, out |-> <<>>,
               reqs |-> probe \o <<Req(stage, "PUT", repository_create, p, f)>>]
    ELSE [raised |-> "none", status |-> HTTP_NOT_FOUND, out |-> <<>>,
          reqs |-> probe]

\* verify_bucket_configuration(es_url, repository)
verify_bucket_configuration(g, p) ==
    LET stage == "verify_bucket_configuration"
        reach == check_if_reachable(g)
        probe == <<Req(stage, "GET", BaseUrl, g, Absent)>>
        call  == probe \o <<Req(stage, "POST", snapshot_verify, p, Absent)>>
    IN
    IF reach.raised # "none"
    THEN [raised |-> reach.raised, val |-> "none", out |-> <<>>, reqs |-> probe]
    ELSE IF reach.val
    THEN IF p.raised
         THEN [raised |-> "none", val |-> "None",
               out |-> <<substitute_placeholder("ConnectionError")>>,
               reqs |-> call]
         ELSE LET j == loads(p.body) IN
              IF j.raised # "none"
              THEN [raised |-> "none", val |-> "None",
                    out |-> <<substitute_placeholder(j.raised)>>, reqs |-> call]
              ELSE [raised |-> "none", val |-> j.val, out |-> <<>>,
                    reqs |-> call]
    ELSE [raised |-> "none", val |-> "None", out |-> <<>>, reqs |-> probe]

\* create_snapshot(es_url, repository, snapshot, payload_location)
create_snapshot(g, f, p) ==
    LET stage == "create_snapshot"
        reach == check_if_reachable(g)
        probe == <<Req(stage, "GET", BaseUrl, g, Absent)>>
        call  == probe \o <<Req(stage, "PUT", snapshot_create, p, f)>>
    IN
    IF reach.raised # "none"
    THEN [raised |-> reach.raised, val |-> "none", out |-> <<>>, reqs |-> probe]
    ELSE IF reach.val /\ isfile(f)
    THEN LET y == yaml_load(f.text) IN
         IF y.raised # "none"
         THEN [raised |-> y.raised, val |-> "none", out |-> <<>>,
               reqs |-> probe]
         ELSE IF p.raised
         THEN [raised |-> "none", val |-> "None",
               out |-> <<substitute_placeholder("ConnectionError")>>,
               reqs |-> call]
         ELSE LET j == loads(p.body) IN
              IF j.raised # "none"
              THEN [raised |-> "none", val |-> "None",
                    out |-> <<substitute_placeholder(j.raised)>>, reqs |-> call]
              ELSE [raised |-> "none", val |-> j.val, out |-> <<>>,
                    reqs |-> call]
    ELSE [raised |-> "none", val |-> "None", out |-> <<>>, reqs |-> probe]

\* Variant: the repository is registered before the snapshot template is
\* rendered.
entrypoint_configure_early(stage) ==
    CASE stage = "read_arguments"              -> "read_configuration"
      [] stage = "read_configuration"          -> "inject"
      [] stage = "inject"                      -> "fill_bucket"
      [] stage = "fill_bucket"                 -> "configure_repository"
      [] stage = "configure_repository"        -> "fill_snapshot"
      [] stage = "fill_snapshot"               -> "verify_bucket_configuration"
      [] stage = "verify_bucket_configuration" -> "create_snapshot"
      [] stage = "create_snapshot"             -> "exited"

\* The order in which entrypoint() (with the __main__ block) makes its calls.
entrypoint(stage) ==
    CASE stage = "read_arguments"              -> "read_configuration"
      [] stage = "read_configuration"          -> "inject"
      [] stage = "inject"                      -> "fill_bucket"
      [] stage = "fill_bucket"                 -> "fill_snapshot"
      [] stage = "fill_snapshot"               -> "configure_repository"
      [] stage = "configure_repository"        -> "verify_bucket_configuration"
      [] stage = "verify_bucket_configuration" -> "create_snapshot"
      [] stage = "create_snapshot"             -> "exited"

----------------------------------------------------------------------------
\* The state machine.

HttpStages == {"configure_repository", "verify_bucket_configuration",
               "create_snapshot"}

Environs == [AWS_ACCESS_KEY_ID : BOOLEAN, AWS_SECRET_ACCESS_KEY : BOOLEAN]

\* Results of the calls of the current run.  written: -2 not called, -1 None;
\* configure: 0 not called, -1 raised; reach: what check_if_reachable gave.
NoResults ==
    [read_configuration |-> "not_called",
     written   |-> [f \in PayloadFiles |-> -2],
     reach     |-> [s \in HttpStages |-> "not_called"],
     configure |-> 0,
     verify    |-> "not_called",
     create    |-> "not_called"]

ReachResult(c) ==
    IF c.raised # "none" THEN "raised" ELSE IF c.val THEN "True" ELSE "False"

Init ==
    /\ pc = "read_arguments"
    /\ run = 1
    /\ location = "unset"
    /\ environ \in Environs
    /\ meta_values = "unset"
    /\ files = [f \in PayloadFiles |-> Absent]
    /\ stdout = <<>>
    /\ http = <<>>
    /\ stages = <<>>
    /\ ret = NoResults
    /\ exit_status = -1
    /\ uncaught = "none"

\* An exception nobody catches ends the process with a traceback, status 1.
Abort(exc) ==
    /\ pc' = "exited"
    /\ exit_status' = 1
    /\ uncaught' = exc

Return ==
    /\ pc' = entrypoint(pc)
    /\ stages' = Append(stages, pc)
    /\ uncaught' = uncaught
    /\ exit_status' = IF entrypoint(pc) = "exited" THEN 0 ELSE exit_status

\* read_arguments(): --metadata has no default value.
ReadArguments ==
    /\ pc = "read_arguments"
    /\ \E loc \in Locations : location' = loc
    /\ Return
    /\ UNCHANGED <<run, environ, meta_values, files, stdout, http, ret>>

\* entrypoint, line 211.
ReadConfiguration ==
    /\ pc = "read_configuration"
    /\ \E text \in ConfigTexts :
         LET r == read_configuration(location, text) IN
         /\ stdout' = stdout \o r.out
         /\ IF r.raised # "none"
            THEN /\ Abort(r.raised)
                 /\ ret' = [ret EXCEPT !.read_configuration = "raised"]
                 /\ UNCHANGED <<meta_values, stages>>
            ELSE /\ Return
                 /\ ret' = [ret EXCEPT !.read_configuration = r.val]
                 /\ meta_values' = r.val
    /\ UNCHANGED <<run, location, environ, files, http>>

\* entrypoint, lines 212-222: key lookups, snapshot name, credentials.
Inject ==
    /\ pc = "inject"
    /\ IF meta_values = "None"
       THEN Abort("TypeError") /\ UNCHANGED <<stdout, stages>>
       ELSE IF meta_values = "nokeys"
       THEN Abort("KeyError") /\ UNCHANGED <<stdout, stages>>
       ELSE IF ~environ.AWS_ACCESS_KEY_ID \/ ~environ.AWS_SECRET_ACCESS_KEY
       THEN /\ Abort("KeyError")
            /\ stdout' = Append(stdout, Out("snapshot_name", "snapshot-today", 0))
            /\ UNCHANGED stages
       ELSE /\ Return
            /\ stdout' = stdout \o <<Out("snapshot_name", "snapshot-today", 0),
                                     Out("es_url", BaseUrl, 0)>>
    /\ UNCHANGED <<run, location, environ, meta_values, files, http, ret>>

\* entrypoint, lines 223-228: fill_template for one payload file.
Fill(stage, outfile) ==
    /\ pc = stage
    /\ \E o \in RenderOutcomes :
         LET r == fill_template(meta_values, o, files[outfile]) IN
         /\ stdout' = stdout \o r.out
         /\ files' = [files EXCEPT ![outfile] = r.file]
         /\ ret' = [ret EXCEPT !.written[outfile] = r.written]
         /\ IF r.exit
            THEN /\ pc' = "exited"
                 /\ exit_status' = 1
                 /\ UNCHANGED <<uncaught, stages>>
            ELSE Return
    /\ UNCHANGED <<run, location, environ, meta_values, http>>

FillBucket == Fill("fill_bucket", bucket_payload)

FillSnapshot == Fill("fill_snapshot", snapshot_payload)

\* entrypoint, lines 229-230.
ConfigureRepository ==
    /\ pc = "configure_repository"
    /\ \E g \in Responses, p \in Responses :
         LET r == configure_repository(g, files[bucket_payload], p) IN
         /\ http' = http \o r.reqs
         /\ ret' = [ret EXCEPT !.configure = r.status,
                               !.reach[pc] = ReachResult(check_if_reachable(g))]
         /\ IF r.raised # "none"
            THEN /\ Abort(r.raised)
                 /\ stdout' = stdout \o r.out
                 /\ UNCHANGED stages
            ELSE /\ Return
                 /\ stdout' = stdout \o r.out \o <<Out("status", "", r.status)>>
    /\ UNCHANGED <<run, location, environ, meta_values, files>>

\* entrypoint, lines 231-232.
VerifyBucketConfiguration ==
    /\ pc = "verify_bucket_configuration"
    /\ \E g \in Responses, p \in Responses :
         LET r == verify_bucket_configuration(g, p) IN
         /\ http' = http \o r.reqs
         /\ ret' = [ret EXCEPT !.verify = IF r.raised # "none" THEN "raised"
                                          ELSE r.val,
                               !.reach[pc] = ReachResult(check_if_reachable(g))]
         /\ IF r.raised # "none"
            THEN /\ Abort(r.raised)
                 /\ stdout' = stdout \o r.out
                 /\ UNCHANGED stages
            ELSE /\ Return
                 /\ stdout' = stdout \o r.out
                                \o <<Out("verify_response", r.val, 0)>>
    /\ UNCHANGED <<run, location, environ, meta_values, files>>

\* entrypoint, lines 233-236.
CreateSnapshot ==
    /\ pc = "create_snapshot"
    /\ \E g \in Responses, p \in Responses :
         LET r == create_snapshot(g, files[snapshot_payload], p) IN
         /\ http' = http \o r.reqs
         /\ ret' = [ret EXCEPT !.create = IF r.raised # "none" THEN "raised"
                                          ELSE r.val,
                               !.reach[pc] = ReachResult(check_if_reachable(g))]
         /\ IF r.raised # "none"
            THEN /\ Abort(r.raised)
                 /\ stdout' = stdout \o r.out
                 /\ UNCHANGED stages
            ELSE /\ Return
                 /\ stdout' = stdout \o r.out
                                \o <<Out("snapshot_response", r.val, 0)>>
    /\ UNCHANGED <<run, location, environ, meta_values, files>>

\* The script is started again in the same working directory: the payload
\* files of the previous run are still on disk.
StartRun ==
    /\ pc = "exited"
    /\ run < MaxRuns
    /\ run' = run + 1
    /\ pc' = "read_arguments"
    /\ location' = "unset"
    /\ environ' \in Environs
    /\ meta_values' = "unset"
    /\ files' = [f \in PayloadFiles |-> Stale(files[f])]
    /\ stdout' = <<>>
    /\ http' = <<>>
    /\ stages' = <<>>
    /\ ret' = NoResults
    /\ exit_status' = -1
    /\ uncaught' = "none"

Next ==
    \/ ReadArguments
    \/ ReadConfiguration
    \/ Inject
    \/ FillBucket
    \/ FillSnapshot
    \/ ConfigureRepository
    \/ VerifyBucketConfiguration
    \/ CreateSnapshot
    \/ StartRun

Spec == Init /\ [][Next]_vars

TypeOK ==
    /\ run \in 1..MaxRuns
    /\ exit_status \in {-1, 0, 1}
    /\ (pc = "exited") = (exit_status # -1)

----------------------------------------------------------------------------
\* Properties.

IsSuccess(q) == ~q.raised /\ q.status < 400
IsCall(q) == q.method \in {"PUT", "POST"}
Called(stage) == ret.reach[stage] # "not_called"
Logged(className) ==
    \E i \in DOMAIN stdout : stdout[i] = substitute_placeholder(className)
Finished == pc = "exited"

\* C1: configure_repository returns 404 whenever the bucket payload file does
\* not exist, for every outcome of the reachability GET (success status,
\* non-success status, connection failure); it does not raise and issues no
\* PUT.
C1_MissingPayloadGives404 ==
    (Called("configure_repository") /\ ~isfile(files[bucket_payload]))
        => /\ ret.configure = 404
           /\ \A i \in DOMAIN http :
                http[i].stage = "configure_repository" => ~IsCall(http[i])

\* C2: configure_repository returns 406 when the cluster is reachable and the
\* bucket payload file exists but does not contain valid JSON.
C2_InvalidJsonGives406 ==
    (/\ ret.reach["configure_repository"] = "True"
     /\ isfile(files[bucket_payload])
     /\ ~IsJson(files[bucket_payload].text))
        => ret.configure = 406

\* C3: check_if_reachable returns true iff the GET returned a success status,
\* and when the GET fails at the connection level it returns false instead of
\* raising.
C3_ReachableIffSuccess ==
    \A i \in DOMAIN http :
        http[i].method = "GET"
            => /\ ret.reach[http[i].stage] # "raised"
               /\ (ret.reach[http[i].stage] = "True") = IsSuccess(http[i])

\* C4: when read_configuration returned no configuration, the run gets to
\* fill_template, which prints that the metadata did not load and exits with
\* status 1; no payload file is written and no HTTP request is issued.
C4_AbsentConfigExitsInRenderer ==
    (Finished /\ ret.read_configuration = "None")
        => /\ exit_status = 1
           /\ \E i \in DOMAIN stdout :
                stdout[i].v = "meta data didn't load; please check yamls"
           /\ \A f \in PayloadFiles : ~files[f].fresh
           /\ http = <<>>

\* C5: once the configuration has loaded and both credential variables are
\* set, every run ends with exit status 0, whatever the HTTP calls do.
C5_HttpFailuresNeverAbort ==
    (/\ Finished
     /\ meta_values = "full"
     /\ environ.AWS_ACCESS_KEY_ID /\ environ.AWS_SECRET_ACCESS_KEY)
        => exit_status = 0

FiveValues == {"snapshot_name", "es_url", "status", "verify_response",
               "snapshot_response"}
IsValue(e) == e.k \in FiveValues
StageIndex(stage) ==
    CASE stage = "configure_repository" -> 1
      [] stage = "verify_bucket_configuration" -> 2
      [] stage = "create_snapshot" -> 3

\* C6: in every run that completes, the stages run in the order load config,
\* inject, render bucket, render snapshot, register, verify, create; the five
\* values are printed in the order snapshot name, URL, status code, verify
\* response, snapshot response; the requests go out in the order of their
\* stages and none before both render steps have finished.
C6_StagesInOrder ==
    /\ (Finished /\ exit_status = 0)
         => /\ stages = <<"read_arguments", "read_configuration", "inject",
                          "fill_bucket", "fill_snapshot",
                          "configure_repository",
                          "verify_bucket_configuration", "create_snapshot">>
            /\ LET values == SelectSeq(stdout, IsValue) IN
               [i \in DOMAIN values |-> values[i].k]
                  = <<"snapshot_name", "es_url", "status", "verify_response",
                      "snapshot_response">>
    /\ http # <<>>
         => \E i, j \in DOMAIN stages :
              /\ stages[i] = "fill_bucket"
              /\ stages[j] = "fill_snapshot"
    /\ \A i, j \in DOMAIN http :
         i < j => StageIndex(http[i].stage) <= StageIndex(http[j].stage)

\* A completed run in which all three API calls went out.
C6_Witness ==
    /\ Finished /\ exit_status = 0
    /\ Cardinality({i \in DOMAIN http : IsCall(http[i])}) = 3

\* C7: for a missing file path, including the absent path of an omitted
\* --metadata flag, read_configuration logs a file-not-found condition,
\* returns None and does not raise.
C7_MissingPathReturnsNone ==
    (ret.read_configuration # "not_called" /\ location \in {"None", "missing"})
        => /\ ret.read_configuration = "None"
           /\ Logged("FileNotFoundError")

\* C8: whenever configure_repository returned a failure status, the same run
\* still calls verify_bucket_configuration and then create_snapshot.
C8_NoRollback ==
    (Finished /\ ret.configure >= 400)
        => /\ ret.verify # "not_called"
           /\ ret.create # "not_called"

\* C9: every PUT or POST to a /_snapshot endpoint directly follows, within
\* the same stage, a GET to the base URL that returned a success status, and
\* a stage whose GET returned a non-success status issues no PUT or POST.
C9_ReachabilityGatesCalls ==
    /\ \A i \in DOMAIN http :
         IsCall(http[i])
            => /\ i > 1
               /\ http[i-1].method = "GET"
               /\ http[i-1].target = BaseUrl
               /\ http[i-1].stage = http[i].stage
               /\ IsSuccess(http[i-1])
    /\ \A i, j \in DOMAIN http :
         (/\ http[i].method = "GET"
          /\ ~http[i].raised /\ ~IsSuccess(http[i])
          /\ http[j].stage = http[i].stage)
            => ~IsCall(http[j])

\* A run in which one stage was refused by a non-success GET although its
\* payload file was there, and a later stage passed the gate and sent its call.
C9_Witness ==
    /\ ret.reach["configure_repository"] = "False"
    /\ isfile(files[bucket_payload])
    /\ \E i \in DOMAIN http :
         /\ http[i].stage = "create_snapshot"
         /\ http[i].method = "PUT"

\* C10: every register-repository or create-snapshot PUT carries a payload
\* that generate_payload rendered and wrote during the same run, never a file
\* left over from an earlier run nor a file that was only truncated.
C10_PayloadsAreOfThisRun ==
    \A i \in DOMAIN http :
        http[i].method = "PUT"
            => /\ http[i].body.fresh
               /\ http[i].body.how = "rendered"

====
